---------------------------- MODULE Spec2Model ----------------------------
(***************************************************************************)
(* Model of src/main.py: the book availability checker.                    *)
(*                                                                         *)
(*   - safe_send_keys / safe_clear_element : the retry wrappers            *)
(*   - send_slack_message                  : the notification sink call    *)
(*   - check_single_book                   : the task executor             *)
(*   - main                                : pool, collection and report   *)
(*                                                                         *)
(* External collaborators (selenium, urllib, ThreadPoolExecutor) are       *)
(* modelled by what they do at the call site: every call returns or raises *)
(* one of the exception classes the executor distinguishes.                *)
(***************************************************************************)
EXTENDS Naturals, Integers, Sequences, FiniteSets, TLC

\* ------------------------------------------------------------------ bounds
MaxRetries == 3
MaxBooks == 2
MaxWorkers == 2
MaxPolls == 2

\* ------------------------------------------------------- program constants
\* retries: int = 3, the default of both wrappers, used by check_single_book
DefaultRetries == 3

\* Identity strings the book list is drawn from, in input order.
Catalogue == <<"Zeta", "Alpha", "Beta", "Gamma", "Delta">>

\* What one call to an external collaborator does: it returns ("ok") or it
\* raises StaleElementReferenceException ("stale"), TimeoutException
\* ("timeout") or any other Exception ("other").
Kinds == {"ok", "stale", "timeout", "other"}
Raised == Kinds \ {"ok"}

Statuses == {"available", "not_found", "timeout", "stale", "error"}

\* Per-attempt results of a wrapped operation, attempt k at position k.
Attempts(n) == [1..n -> Kinds]

\* ------------------------------------------------------- the retry wrappers
\* The state of one wrapper call: how it ended ("returned" or the kind it
\* raised), the number of invocations of the wrapped operation and the number
\* of time.sleep(0.5) backoff waits.
WrapperResult(o, c, s) == [outcome |-> o, calls |-> c, sleeps |-> s]

\* for i in range(retries): try element.send_keys(keys); return
\*   except StaleElementReferenceException: if i == retries - 1: raise
\*                                          time.sleep(0.5)
RECURSIVE send_keys_loop(_, _, _, _, _)
send_keys_loop(i, retries, attempts, calls, sleeps) ==
  IF i >= retries
    THEN WrapperResult("returned", calls, sleeps)
    ELSE LET r == attempts[i + 1] IN
         IF r = "ok"
           THEN WrapperResult("returned", calls + 1, sleeps)
           ELSE IF r = "stale"
                  THEN IF i = retries - 1
                         THEN WrapperResult("stale", calls + 1, sleeps)
                         ELSE send_keys_loop(i + 1, retries, attempts,
                                             calls + 1, sleeps + 1)
                  ELSE WrapperResult(r, calls + 1, sleeps)

\* Mutant: the last-attempt test is off by one, so the final stale failure is
\* swallowed and the loop falls through.
RECURSIVE send_keys_loop_offbyone(_, _, _, _, _)
send_keys_loop_offbyone(i, retries, attempts, calls, sleeps) ==
  IF i >= retries
    THEN WrapperResult("returned", calls, sleeps)
    ELSE LET r == attempts[i + 1] IN
         IF r = "ok"
           THEN WrapperResult("returned", calls + 1, sleeps)
           ELSE IF r = "stale"
                  THEN IF i = retries
                         THEN WrapperResult("stale", calls + 1, sleeps)
                         ELSE send_keys_loop_offbyone(i + 1, retries, attempts,
                                                      calls + 1, sleeps + 1)
                  ELSE WrapperResult(r, calls + 1, sleeps)

\* Mutant: the `return` after a successful send_keys is missing, so the loop
\* goes on to the next attempt.
RECURSIVE send_keys_loop_noreturn(_, _, _, _, _)
send_keys_loop_noreturn(i, retries, attempts, calls, sleeps) ==
  IF i >= retries
    THEN WrapperResult("returned", calls, sleeps)
    ELSE LET r == attempts[i + 1] IN
         IF r = "ok"
           THEN send_keys_loop_noreturn(i + 1, retries, attempts,
                                        calls + 1, sleeps)
           ELSE IF r = "stale"
                  THEN IF i = retries - 1
                         THEN WrapperResult("stale", calls + 1, sleeps)
                         ELSE send_keys_loop_noreturn(i + 1, retries, attempts,
                                                      calls + 1, sleeps + 1)
                  ELSE WrapperResult(r, calls + 1, sleeps)

safe_send_keys_noreturn(retries, attempts) ==
  send_keys_loop_noreturn(0, retries, attempts, 0, 0)

safe_send_keys_offbyone(retries, attempts) ==
  send_keys_loop_offbyone(0, retries, attempts, 0, 0)

safe_send_keys(retries, attempts) ==
  send_keys_loop(0, retries, attempts, 0, 0)

\* for i in range(retries): try driver.execute_script(...); return
\*   except StaleElementReferenceException: if i == retries - 1: raise
\*                                          time.sleep(0.5)
RECURSIVE clear_element_loop(_, _, _, _, _)
clear_element_loop(i, retries, attempts, calls, sleeps) ==
  IF i >= retries
    THEN WrapperResult("returned", calls, sleeps)
    ELSE LET r == attempts[i + 1] IN
         IF r = "ok"
           THEN WrapperResult("returned", calls + 1, sleeps)
           ELSE IF r = "stale"
                  THEN IF i = retries - 1
                         THEN WrapperResult("stale", calls + 1, sleeps)
                         ELSE clear_element_loop(i + 1, retries, attempts,
                                                 calls + 1, sleeps + 1)
                  ELSE WrapperResult(r, calls + 1, sleeps)

\* Mutant: the handler catches every exception class, so a non-stale failure
\* is retried after a backoff wait as well.
RECURSIVE clear_element_loop_catchall(_, _, _, _, _)
clear_element_loop_catchall(i, retries, attempts, calls, sleeps) ==
  IF i >= retries
    THEN WrapperResult("returned", calls, sleeps)
    ELSE LET r == attempts[i + 1] IN
         IF r = "ok"
           THEN WrapperResult("returned", calls + 1, sleeps)
           ELSE IF i = retries - 1
                  THEN WrapperResult(r, calls + 1, sleeps)
                  ELSE clear_element_loop_catchall(i + 1, retries, attempts,
                                                   calls + 1, sleeps + 1)

\* Mutant: time.sleep(0.5) comes before the last-attempt test, so the final
\* stale failure is raised after a backoff wait.
RECURSIVE clear_element_loop_sleepfirst(_, _, _, _, _)
clear_element_loop_sleepfirst(i, retries, attempts, calls, sleeps) ==
  IF i >= retries
    THEN WrapperResult("returned", calls, sleeps)
    ELSE LET r == attempts[i + 1] IN
         IF r = "ok"
           THEN WrapperResult("returned", calls + 1, sleeps)
           ELSE IF r = "stale"
                  THEN IF i = retries - 1
                         THEN WrapperResult("stale", calls + 1, sleeps + 1)
                         ELSE clear_element_loop_sleepfirst(i + 1, retries,
                                attempts, calls + 1, sleeps + 1)
                  ELSE WrapperResult(r, calls + 1, sleeps)

\* Mutant: the body runs once before the bound of the loop is looked at, so
\* the operation is invoked even when retries is not positive.
safe_clear_element_bodyfirst(retries, attempts) ==
  clear_element_loop(0, IF retries < 1 THEN 1 ELSE retries, attempts, 0, 0)

safe_clear_element_sleepfirst(retries, attempts) ==
  clear_element_loop_sleepfirst(0, retries, attempts, 0, 0)

safe_clear_element_catchall(retries, attempts) ==
  clear_element_loop_catchall(0, retries, attempts, 0, 0)

safe_clear_element(retries, attempts) ==
  clear_element_loop(0, retries, attempts, 0, 0)

\* ------------------------------------------------------------------ state
VARIABLES
  book_list,    \* main: the stripped identity strings, in input order
  max_workers,  \* main: args.max_workers
  webhook_ok,   \* whether urllib accepts args.slack_webhook_url as a URL
  submitted,    \* main: number of tasks handed to executor.submit so far
  pc,           \* per task: position of its check_single_book invocation
  driver,       \* per task: the local `driver` ("None", "open", "closed")
  exc,          \* per task: the exception in flight ("none" or its kind)
  ret,          \* per task: the dict of the executed return statement
  via,          \* per task: which return statement was executed
  sent,         \* per task: the send_slack_message calls it made, in order
  slept,        \* per task: whether the time.sleep(1) of finally was done
  nothing_seen, \* per task: no poll of the wait for results saw a signal
  log,          \* per task: the lines its thread printed, in order
  invoked,      \* per task: how many times a worker called check_single_book
  mainpc,       \* main: position of the main thread
  collected,    \* main: futures already yielded by as_completed
  results,      \* main: the `results` list
  report,       \* main: the lines of the final report, in output order
  rRetries,     \* wrapper call under test: its `retries` argument
  rAttempts,    \* wrapper call under test: what each attempt would do
  rOp,          \* wrapper call under test: which wrapper was called
  rOut,         \* wrapper call under test: how the call ended
  rInput        \* wrapper call under test: the value of the input element
                \* before the call and after it

runVars == <<book_list, max_workers, webhook_ok>>
taskVars == <<pc, driver, exc, ret, via, sent, slept, nothing_seen, log,
              invoked>>
mainVars == <<submitted, mainpc, collected, results, report>>
retryVars == <<rRetries, rAttempts, rOp, rOut, rInput>>
vars == <<runVars, taskVars, mainVars, retryVars>>

\* tasks = [(book, i + 1) for i, book in enumerate(book_list)]
tasks == [n \in 1..Len(book_list) |-> [book |-> book_list[n], index |-> (n - 1) + 1]]

Indexes == 1..Len(book_list)

\* The dict every return statement of check_single_book builds.
Outcome(book, index, status) ==
  [index |-> index, book |-> book, status |-> status]

NoResult == [index |-> 0, book |-> "", status |-> "none"]

\* ------------------------------------------------------- send_slack_message
\* What one call does: Request(...) is built outside the try, so a URL that
\* urllib rejects raises out of the function; inside the try the response is
\* 200, or not 200, or urlopen raises, and the last two are only logged.
SendOutcomes ==
  IF webhook_ok THEN {"delivered", "http_error", "send_error"} ELSE {"raised"}

\* The call as the sink sees it: the text carries index, book and the kind
\* of message.
Message(book, index, kind) ==
  [index |-> index, book |-> book, kind |-> kind]

\* A line printed to standard output: which print statement wrote it, the
\* index it names and the identity string it contains ("" when it has none).
LogLine(form, index, book) == [form |-> form, index |-> index, book |-> book]

\* What send_slack_message prints for delivery d: one line about the
\* delivery (sent, not 200, or the exception of urlopen), none of which names
\* an item; a call that raises prints nothing.
SendLog(d) ==
  IF d = "raised" THEN <<>> ELSE <<LogLine("slack", 0, "")>>

\* ------------------------------------------------------------ WebDriverWait
\* wait.until(method): poll until the method returns a truthy value; an
\* exception of the method propagates; when the timeout expires before a
\* truthy value, raise TimeoutException.  polls[k] is what poll k observes:
\* "products" or "no_results" (truthy), "neither" (falsy), or a raised kind.
PollResults == {"products", "no_results", "neither", "stale", "other"}

RECURSIVE wait_until_from(_, _)
wait_until_from(k, polls) ==
  IF k > Len(polls)
    THEN "timeout"
    ELSE IF polls[k] = "neither"
           THEN wait_until_from(k + 1, polls)
           ELSE IF polls[k] \in {"products", "no_results"}
                  THEN "returned"
                  ELSE polls[k]

\* No poll of the wait observed either signal (and none raised).
NothingSeen(polls) == \A k \in 1..Len(polls) : polls[k] = "neither"

wait_until(polls) == wait_until_from(1, polls)

\* ------------------------------------------------------- check_single_book
InFlight == {i \in Indexes : pc[i] \notin {"unsubmitted", "queued", "done"}}

\* Mutant: the pool starts a worker thread per submitted task.
CanStartUnbounded(i) ==
  /\ pc[i] = "queued"
  /\ \A j \in 1..(i - 1) : pc[j] # "queued"

\* ThreadPoolExecutor(max_workers): at most max_workers worker threads, each
\* running one work item at a time, taken from the queue in submission order.
CanStart(i) ==
  /\ pc[i] = "queued"
  /\ \A j \in 1..(i - 1) : pc[j] # "queued"
  /\ Cardinality(InFlight) < max_workers

Goto(i, p) == pc' = [pc EXCEPT ![i] = p]

\* An exception of kind k raised inside the try block.
RaiseInTry(i, k) ==
  /\ pc' = [pc EXCEPT ![i] = "handler"]
  /\ exc' = [exc EXCEPT ![i] = k]

\* A worker thread takes the task from the queue and calls check_single_book.
Start(i) ==
  /\ CanStart(i)
  /\ Goto(i, "setup")
  /\ invoked' = [invoked EXCEPT ![i] = @ + 1]
  /\ UNCHANGED <<driver, exc, ret, via, sent, slept, nothing_seen, log>>
  /\ UNCHANGED <<runVars, mainVars, retryVars>>

\* Service(...), Options(), add_argument: before the try statement, so a
\* failure here leaves check_single_book at once.  Then driver = None and
\* print(f"Book #{index} - Starting search for '{book}'...").
Setup(i) ==
  /\ pc[i] = "setup"
  /\ \E r \in {"ok", "other"} :
       IF r = "ok"
         THEN /\ Goto(i, "acquire")
              /\ log' = [log EXCEPT ![i] =
                           Append(@, LogLine("starting", tasks[i].index,
                                             tasks[i].book))]
              /\ UNCHANGED exc
         ELSE /\ Goto(i, "done")
              /\ exc' = [exc EXCEPT ![i] = r]
              /\ UNCHANGED log
  /\ UNCHANGED <<driver, ret, via, sent, slept, nothing_seen>>
  /\ UNCHANGED <<invoked, runVars, mainVars, retryVars>>

\* driver = webdriver.Chrome(service=service, options=options)
Acquire(i) ==
  /\ pc[i] = "acquire"
  /\ \E r \in Kinds :
       IF r = "ok"
         THEN /\ Goto(i, "navigate")
              /\ driver' = [driver EXCEPT ![i] = "open"]
              /\ UNCHANGED exc
         ELSE RaiseInTry(i, r) /\ UNCHANGED driver
  /\ UNCHANGED <<ret, via, sent, slept, nothing_seen, log>>
  /\ UNCHANGED <<invoked, runVars, mainVars, retryVars>>

\* driver.get(website_url)
Navigate(i) ==
  /\ pc[i] = "navigate"
  /\ \E r \in Kinds :
       IF r = "ok" THEN Goto(i, "locate") /\ UNCHANGED exc
                   ELSE RaiseInTry(i, r)
  /\ UNCHANGED <<driver, ret, via, sent, slept, nothing_seen, log>>
  /\ UNCHANGED <<invoked, runVars, mainVars, retryVars>>

\* search_bar = wait.until(EC.element_to_be_clickable(...))
Locate(i) ==
  /\ pc[i] = "locate"
  /\ \E r \in Kinds :
       IF r = "ok" THEN Goto(i, "clear") /\ UNCHANGED exc
                   ELSE RaiseInTry(i, r)
  /\ UNCHANGED <<driver, ret, via, sent, slept, nothing_seen, log>>
  /\ UNCHANGED <<invoked, runVars, mainVars, retryVars>>

\* One retry-wrapped step of the try block, run to its end.
WrappedStep(i, out, next) ==
  IF out.outcome = "returned" THEN Goto(i, next) /\ UNCHANGED exc
                              ELSE RaiseInTry(i, out.outcome)

\* Every way a wrapper call with the default retries can end, over all the
\* behaviours of the wrapped operation.
ClearOutcomes ==
  {safe_clear_element(DefaultRetries, a) : a \in Attempts(DefaultRetries)}

SendKeysOutcomes ==
  {safe_send_keys(DefaultRetries, a) : a \in Attempts(DefaultRetries)}

\* safe_clear_element(driver, search_bar)
Clear(i) ==
  /\ pc[i] = "clear"
  /\ \E out \in ClearOutcomes : WrappedStep(i, out, "type")
  /\ UNCHANGED <<driver, ret, via, sent, slept, nothing_seen, log>>
  /\ UNCHANGED <<invoked, runVars, mainVars, retryVars>>

\* safe_send_keys(search_bar, book)
TypeBook(i) ==
  /\ pc[i] = "type"
  /\ \E out \in SendKeysOutcomes : WrappedStep(i, out, "enter")
  /\ UNCHANGED <<driver, ret, via, sent, slept, nothing_seen, log>>
  /\ UNCHANGED <<invoked, runVars, mainVars, retryVars>>

\* safe_send_keys(search_bar, Keys.RETURN)
PressReturn(i) ==
  /\ pc[i] = "enter"
  /\ \E out \in SendKeysOutcomes : WrappedStep(i, out, "wait")
  /\ UNCHANGED <<driver, ret, via, sent, slept, nothing_seen, log>>
  /\ UNCHANGED <<invoked, runVars, mainVars, retryVars>>

\* Every way the wait can end, over all the sequences of polls that fit in
\* its timeout: how wait.until ended and whether any poll saw a signal.
WaitOutcomes ==
  {[result |-> wait_until(polls), unseen |-> NothingSeen(polls)] :
     polls \in [1..MaxPolls -> PollResults]}

\* wait.until(lambda d: d.find_elements(producto) or d.find_elements(sin-resultados))
WaitResults(i) ==
  /\ pc[i] = "wait"
  /\ \E w \in WaitOutcomes :
       /\ nothing_seen' = [nothing_seen EXCEPT ![i] = w.unseen]
       /\ IF w.result = "returned" THEN Goto(i, "classify") /\ UNCHANGED exc
                                   ELSE RaiseInTry(i, w.result)
  /\ UNCHANGED <<driver, ret, via, sent, slept, log>>
  /\ UNCHANGED <<invoked, runVars, mainVars, retryVars>>

\* print(anon_msg) and a send_slack_message call made inside the try block,
\* followed by the return statement of that branch: when the call raises, the exception is
\* one the `except Exception` clause will take and nothing is returned.
SendThenReturn(i, kind, status, branch) ==
  \E d \in SendOutcomes :
    /\ sent' = [sent EXCEPT ![i] =
                  Append(@, Message(tasks[i].book, tasks[i].index, kind))]
    /\ log' = [log EXCEPT ![i] =
                 Append(@, LogLine(kind, tasks[i].index, "")) \o SendLog(d)]
    /\ IF d = "raised"
         THEN RaiseInTry(i, "other") /\ UNCHANGED <<ret, via>>
         ELSE /\ Goto(i, "finally")
              /\ ret' = [ret EXCEPT ![i] =
                           Outcome(tasks[i].book, tasks[i].index, status)]
              /\ via' = [via EXCEPT ![i] = branch]
              /\ UNCHANGED exc

\* products = driver.find_elements(producto); if products: ... else:
\* no_results = driver.find_elements(sin-resultados); if no_results: ...
\* else: ...   `seen` is what the two queries find, or the kind one raises.
Classify(i) ==
  /\ pc[i] = "classify"
  /\ \E seen \in {"products", "no_results", "neither"} \cup Raised :
       CASE seen = "products" ->
              SendThenReturn(i, "available", "available", "available")
         [] seen = "no_results" ->
              /\ Goto(i, "finally")
              /\ ret' = [ret EXCEPT ![i] =
                           Outcome(tasks[i].book, tasks[i].index, "not_found")]
              /\ via' = [via EXCEPT ![i] = "not_found"]
              /\ log' = [log EXCEPT ![i] =
                           Append(@, LogLine("no_results", tasks[i].index, ""))]
              /\ UNCHANGED <<exc, sent>>
         [] seen = "neither" ->
              SendThenReturn(i, "structure_changed", "error", "structural")
         [] OTHER ->
              RaiseInTry(i, seen) /\ UNCHANGED <<ret, via, sent, log>>
  /\ UNCHANGED <<driver, slept, nothing_seen>>
  /\ UNCHANGED <<invoked, runVars, mainVars, retryVars>>

\* print(anon_error_msg) and a send_slack_message call made inside an except
\* clause, followed by the
\* return statement of that clause: when the call raises, the new exception
\* is in flight and no clause of this try statement takes it.
HandlerSend(i, kind, status) ==
  \E d \in SendOutcomes :
    /\ sent' = [sent EXCEPT ![i] =
                  Append(@, Message(tasks[i].book, tasks[i].index, kind))]
    /\ log' = [log EXCEPT ![i] =
                 Append(@, LogLine(kind, tasks[i].index, "")) \o SendLog(d)]
    /\ IF d = "raised"
         THEN /\ exc' = [exc EXCEPT ![i] = "other"]
              /\ UNCHANGED <<ret, via>>
         ELSE /\ exc' = [exc EXCEPT ![i] = "none"]
              /\ ret' = [ret EXCEPT ![i] =
                           Outcome(tasks[i].book, tasks[i].index, status)]
              /\ via' = [via EXCEPT ![i] = status]

\* Mutant: the stale clause returns without telling the sink.
HandlerQuietStale(i) ==
  /\ pc[i] = "handler"
  /\ Goto(i, "finally")
  /\ CASE exc[i] = "timeout" -> HandlerSend(i, "timed_out", "timeout")
       [] exc[i] = "stale" ->
            /\ exc' = [exc EXCEPT ![i] = "none"]
            /\ ret' = [ret EXCEPT ![i] =
                         Outcome(tasks[i].book, tasks[i].index, "stale")]
            /\ via' = [via EXCEPT ![i] = "stale"]
            /\ log' = [log EXCEPT ![i] =
                         Append(@, LogLine("stale", tasks[i].index, ""))]
            /\ UNCHANGED sent
       [] OTHER ->
            /\ exc' = [exc EXCEPT ![i] = "none"]
            /\ ret' = [ret EXCEPT ![i] =
                         Outcome(tasks[i].book, tasks[i].index, "error")]
            /\ via' = [via EXCEPT ![i] = "unexpected"]
            /\ log' = [log EXCEPT ![i] =
                         Append(@, LogLine("unexpected", tasks[i].index, ""))]
            /\ UNCHANGED sent
  /\ UNCHANGED <<driver, slept, nothing_seen>>
  /\ UNCHANGED <<invoked, runVars, mainVars, retryVars>>

\* Mutant: there is no TimeoutException clause, so a timeout is taken by
\* the `except Exception` clause.
HandlerNoTimeoutClause(i) ==
  /\ pc[i] = "handler"
  /\ Goto(i, "finally")
  /\ CASE exc[i] = "stale" -> HandlerSend(i, "stale", "stale")
       [] OTHER ->
            /\ exc' = [exc EXCEPT ![i] = "none"]
            /\ ret' = [ret EXCEPT ![i] =
                         Outcome(tasks[i].book, tasks[i].index, "error")]
            /\ via' = [via EXCEPT ![i] = "unexpected"]
            /\ log' = [log EXCEPT ![i] =
                         Append(@, LogLine("unexpected", tasks[i].index, ""))]
            /\ UNCHANGED sent
  /\ UNCHANGED <<driver, slept, nothing_seen>>
  /\ UNCHANGED <<invoked, runVars, mainVars, retryVars>>

\* except TimeoutException / except StaleElementReferenceException /
\* except Exception as e
Handler(i) ==
  /\ pc[i] = "handler"
  /\ Goto(i, "finally")
  /\ CASE exc[i] = "timeout" -> HandlerSend(i, "timed_out", "timeout")
       [] exc[i] = "stale" -> HandlerSend(i, "stale", "stale")
       [] OTHER ->
            /\ exc' = [exc EXCEPT ![i] = "none"]
            /\ ret' = [ret EXCEPT ![i] =
                         Outcome(tasks[i].book, tasks[i].index, "error")]
            /\ via' = [via EXCEPT ![i] = "unexpected"]
            /\ log' = [log EXCEPT ![i] =
                         Append(@, LogLine("unexpected", tasks[i].index, ""))]
            /\ UNCHANGED sent
  /\ UNCHANGED <<driver, slept, nothing_seen>>
  /\ UNCHANGED <<invoked, runVars, mainVars, retryVars>>

\* Mutant: the finally clause forgets driver.quit().
FinallyNoQuit(i) ==
  /\ pc[i] = "finally"
  /\ Goto(i, "sleep")
  /\ UNCHANGED <<driver, exc, ret, via, sent, slept, nothing_seen, log>>
  /\ UNCHANGED <<invoked, runVars, mainVars, retryVars>>

\* finally: if driver: driver.quit()
\* WebDriver.quit() tears the session down in its own finally blocks, so the
\* session is gone whether the call returns or raises.  When it raises, the
\* exception replaces the pending return value or exception and the rest of
\* the clause is skipped.
Finally(i) ==
  /\ pc[i] = "finally"
  /\ IF driver[i] = "open"
       THEN /\ driver' = [driver EXCEPT ![i] = "closed"]
            /\ \E r \in {"ok", "other"} :
                 IF r = "ok"
                   THEN Goto(i, "sleep") /\ UNCHANGED <<exc, ret, via>>
                   ELSE /\ Goto(i, "done")
                        /\ exc' = [exc EXCEPT ![i] = r]
                        /\ ret' = [ret EXCEPT ![i] = NoResult]
                        /\ via' = [via EXCEPT ![i] = "none"]
       ELSE Goto(i, "sleep") /\ UNCHANGED <<driver, exc, ret, via>>
  /\ UNCHANGED <<sent, slept, nothing_seen, log>>
  /\ UNCHANGED <<invoked, runVars, mainVars, retryVars>>

\* finally: time.sleep(1); then the pending return or exception takes effect
\* and the future of the task is done.
Sleep(i) ==
  /\ pc[i] = "sleep"
  /\ Goto(i, "done")
  /\ slept' = [slept EXCEPT ![i] = TRUE]
  /\ UNCHANGED <<driver, exc, ret, via, sent, nothing_seen, log>>
  /\ UNCHANGED <<invoked, runVars, mainVars, retryVars>>

\* --------------------------------------------------------------------- main
\* Insert r into a list sorted by index, after the entries that are not
\* greater (list.sort is stable).
RECURSIVE InsertByIndex(_, _)
InsertByIndex(r, sorted) ==
  IF sorted = <<>> THEN <<r>>
  ELSE IF r.index < Head(sorted).index
         THEN <<r>> \o sorted
         ELSE <<Head(sorted)>> \o InsertByIndex(r, Tail(sorted))

RECURSIVE SortFrom(_, _, _)
SortFrom(k, rs, sorted) ==
  IF k > Len(rs) THEN sorted
                 ELSE SortFrom(k + 1, rs, InsertByIndex(rs[k], sorted))

\* Mutant: the report is written in the order the results were collected.
SortByIndexSkipped(rs) == rs

\* results.sort(key=lambda x: x["index"])
SortByIndex(rs) == SortFrom(1, rs, <<>>)

\* executor.submit(check_single_book, book, index, ...) for the next task of
\* `tasks`; after the last one main enters the as_completed loop.
Submit ==
  /\ mainpc = "submit"
  /\ submitted < Len(tasks)
  /\ submitted' = submitted + 1
  /\ pc' = [pc EXCEPT ![tasks[submitted + 1].index] = "queued"]
  /\ mainpc' = IF submitted + 1 = Len(tasks) THEN "collect" ELSE "submit"
  /\ UNCHANGED <<driver, exc, ret, via, sent, slept, nothing_seen, log>>
  /\ UNCHANGED <<collected, results, report>>
  /\ UNCHANGED <<invoked, runVars, retryVars>>

\* Mutant: a task whose future holds an exception is submitted again instead
\* of letting the exception leave the loop.
CollectResubmit(i) ==
  /\ mainpc = "collect"
  /\ pc[i] = "done"
  /\ i \notin collected
  /\ IF exc[i] = "none"
       THEN /\ collected' = collected \cup {i}
            /\ results' = Append(results, ret[i])
            /\ UNCHANGED <<pc, exc>>
       ELSE /\ pc' = [pc EXCEPT ![i] = "queued"]
            /\ exc' = [exc EXCEPT ![i] = "none"]
            /\ UNCHANGED <<collected, results>>
  /\ UNCHANGED <<submitted, mainpc, report>>
  /\ UNCHANGED <<driver, ret, via, sent, slept, nothing_seen, log, invoked>>
  /\ UNCHANGED <<runVars, retryVars>>

\* for future in as_completed(future_to_book): result = future.result();
\* results.append(result).  future.result() re-raises what the task raised:
\* the exception leaves the loop and the with statement starts its exit.
Collect(i) ==
  /\ mainpc = "collect"
  /\ pc[i] = "done"
  /\ i \notin collected
  /\ collected' = collected \cup {i}
  /\ IF exc[i] = "none"
       THEN results' = Append(results, ret[i]) /\ UNCHANGED mainpc
       ELSE mainpc' = "aborting" /\ UNCHANGED results
  /\ UNCHANGED <<submitted, report>>
  /\ UNCHANGED <<runVars, taskVars, retryVars>>

\* Mutant: the report is written without waiting for the loop to be exhausted.
ReportEarly ==
  /\ mainpc = "collect"
  /\ mainpc' = "reported"
  /\ report' = SortByIndex(results)
  /\ UNCHANGED <<submitted, collected, results>>
  /\ UNCHANGED <<runVars, taskVars, retryVars>>

\* The loop is exhausted; the with statement exits (executor.shutdown with
\* wait=True, every task is done by then); results.sort(...) and the report.
Report ==
  /\ mainpc = "collect"
  /\ collected = Indexes
  /\ mainpc' = "reported"
  /\ report' = SortByIndex(results)
  /\ UNCHANGED <<submitted, collected, results>>
  /\ UNCHANGED <<runVars, taskVars, retryVars>>

\* Mutant: the pool is shut down without waiting for its tasks.
AbortNoWait ==
  /\ mainpc = "aborting"
  /\ mainpc' = "failed"
  /\ UNCHANGED <<submitted, collected, results, report>>
  /\ UNCHANGED <<runVars, taskVars, retryVars>>

\* The with statement exits on an exception: executor.shutdown(wait=True)
\* returns once every submitted task has run to its end, then the exception
\* leaves main.
Abort ==
  /\ mainpc = "aborting"
  /\ \A i \in Indexes : pc[i] = "done"
  /\ mainpc' = "failed"
  /\ UNCHANGED <<submitted, collected, results, report>>
  /\ UNCHANGED <<runVars, taskVars, retryVars>>

\* ----------------------------------------------------------- specification
NoCall == WrapperResult("none", 0, 0)

Init ==
  /\ book_list \in {SubSeq(Catalogue, 1, k) : k \in 1..MaxBooks}
  /\ max_workers \in 1..MaxWorkers
  /\ webhook_ok \in BOOLEAN
  /\ submitted = 0
  /\ pc = [i \in Indexes |-> "unsubmitted"]
  /\ driver = [i \in Indexes |-> "None"]
  /\ exc = [i \in Indexes |-> "none"]
  /\ ret = [i \in Indexes |-> NoResult]
  /\ via = [i \in Indexes |-> "none"]
  /\ sent = [i \in Indexes |-> <<>>]
  /\ slept = [i \in Indexes |-> FALSE]
  /\ nothing_seen = [i \in Indexes |-> FALSE]
  /\ log = [i \in Indexes |-> <<>>]
  /\ invoked = [i \in Indexes |-> 0]
  /\ mainpc = "submit"
  /\ collected = {}
  /\ results = <<>>
  /\ report = <<>>
  /\ rRetries = DefaultRetries
  /\ rAttempts = [k \in 1..MaxRetries |-> "ok"]
  /\ rOp = "none"
  /\ rOut = NoCall
  /\ rInput = [before |-> <<>>, after |-> <<>>]

Next ==
  \/ Submit
  \/ \E i \in Indexes : Start(i)
  \/ \E i \in Indexes : Setup(i)
  \/ \E i \in Indexes : Acquire(i)
  \/ \E i \in Indexes : Navigate(i)
  \/ \E i \in Indexes : Locate(i)
  \/ \E i \in Indexes : Clear(i)
  \/ \E i \in Indexes : TypeBook(i)
  \/ \E i \in Indexes : PressReturn(i)
  \/ \E i \in Indexes : WaitResults(i)
  \/ \E i \in Indexes : Classify(i)
  \/ \E i \in Indexes : Handler(i)
  \/ \E i \in Indexes : Finally(i)
  \/ \E i \in Indexes : Sleep(i)
  \/ \E i \in Indexes : Collect(i)
  \/ Report
  \/ Abort

Spec == Init /\ [][Next]_vars

\* ------------------------------------- the retry wrappers, called directly
\* The text a safe_send_keys call types.
TypedKeys == "book"

\* What one invocation of the wrapped operation does to the value of the
\* input element: element.send_keys(keys) types the keys after the present
\* value, the script of safe_clear_element sets the value to ''; an
\* invocation that raises leaves the value as it was.
InvocationEffect(op, value, result) ==
  IF result # "ok" THEN value
  ELSE IF op = "send_keys" THEN Append(value, TypedKeys)
                           ELSE <<>>

\* The value of the input element after the first `calls` invocations.
RECURSIVE InputAfter(_, _, _, _)
InputAfter(op, value, attempts, calls) ==
  IF calls <= 0 THEN value
  ELSE InvocationEffect(op, InputAfter(op, value, attempts, calls - 1),
                        attempts[calls])

\* One call of a wrapper with any `retries` and any per-attempt behaviour of
\* the wrapped operation.
CallSafeSendKeys ==
  /\ rOp = "none"
  /\ rOp' = "safe_send_keys"
  /\ rOut' = safe_send_keys(rRetries, rAttempts)
  /\ rInput' = [rInput EXCEPT !.after =
                  InputAfter("send_keys", rInput.before, rAttempts,
                             safe_send_keys(rRetries, rAttempts).calls)]
  /\ UNCHANGED <<rRetries, rAttempts>>
  /\ UNCHANGED <<runVars, taskVars, mainVars>>

CallSafeClearElement ==
  /\ rOp = "none"
  /\ rOp' = "safe_clear_element"
  /\ rOut' = safe_clear_element(rRetries, rAttempts)
  /\ rInput' = [rInput EXCEPT !.after =
                  InputAfter("clear", rInput.before, rAttempts,
                             safe_clear_element(rRetries, rAttempts).calls)]
  /\ UNCHANGED <<rRetries, rAttempts>>
  /\ UNCHANGED <<runVars, taskVars, mainVars>>

InitRetry ==
  /\ book_list = <<"Zeta">>
  /\ max_workers = 1
  /\ webhook_ok = TRUE
  /\ submitted = 0
  /\ pc = [i \in Indexes |-> "unsubmitted"]
  /\ driver = [i \in Indexes |-> "None"]
  /\ exc = [i \in Indexes |-> "none"]
  /\ ret = [i \in Indexes |-> NoResult]
  /\ via = [i \in Indexes |-> "none"]
  /\ sent = [i \in Indexes |-> <<>>]
  /\ slept = [i \in Indexes |-> FALSE]
  /\ nothing_seen = [i \in Indexes |-> FALSE]
  /\ log = [i \in Indexes |-> <<>>]
  /\ invoked = [i \in Indexes |-> 0]
  /\ mainpc = "idle"
  /\ collected = {}
  /\ results = <<>>
  /\ report = <<>>
  /\ rRetries \in (0 - 1)..MaxRetries
  /\ rAttempts \in Attempts(MaxRetries)
  /\ rOp = "none"
  /\ rOut = NoCall
  /\ rInput \in {[before |-> v, after |-> v] : v \in {<<>>, <<"old">>}}

NextRetry ==
  \/ CallSafeSendKeys
  \/ CallSafeClearElement

SpecRetry == InitRetry /\ [][NextRetry]_vars

\* ------------------------------------------------------------ properties
Done(i) == pc[i] = "done"

\* check_single_book returned a dict (no exception left it).
Returned(i) == pc[i] = "done" /\ exc[i] = "none"

MainEnded == mainpc \in {"reported", "failed"}

OpenSessions == {i \in Indexes : driver[i] = "open"}

\* The text the sink is sent for item i about `kind`.
MessageFor(i, kind) == Message(book_list[i], i, kind)

\* C1: the report main emits has one entry per item of the book list, the
\* entry at position n carries index n and the identity string of the n-th
\* input item, whatever the order in which the tasks were collected.
C1_ReportInInputOrder ==
  mainpc = "reported" =>
    /\ Len(report) = Len(book_list)
    /\ \A n \in 1..Len(report) :
         report[n].index = n /\ report[n].book = book_list[n]

\* A report emitted after the results were collected out of input order.
C1_Witness ==
  /\ mainpc = "reported"
  /\ Len(results) >= 2
  /\ results[1].index > results[2].index

\* C2: once main has ended, every submitted item has exactly one outcome in
\* the collected results, also when its executor failed.
C2_EveryItemOneOutcome ==
  MainEnded =>
    \A i \in Indexes :
      Cardinality({n \in 1..Len(results) : results[n].index = i}) = 1

\* C3: an invocation of check_single_book that has ended has returned a dict
\* with the position and identity of its item and a status of the closed set;
\* nothing was raised past it.
C3_ExecutorNeverRaises ==
  \A i \in Indexes :
    Done(i) =>
      /\ exc[i] = "none"
      /\ ret[i].index = i
      /\ ret[i].book = book_list[i]
      /\ ret[i].status \in Statuses

\* C4: at most max_workers invocations of check_single_book are in flight.
C4_AtMostWInFlight == Cardinality(InFlight) <= max_workers

\* Every worker is busy while a submitted task still waits in the queue.
C4_Witness ==
  /\ Cardinality(InFlight) = max_workers
  /\ \E i \in Indexes : pc[i] = "queued"

\* The contract of one wrapper call with retries = N: between 1 and N
\* invocations, it returns exactly when the last invocation succeeded, no
\* earlier invocation succeeded, and it raises the stale failure exactly when
\* all N attempts failed with it.
RetryContract ==
  /\ rOut.calls >= 1
  /\ rOut.calls <= rRetries
  /\ (rOut.outcome = "returned") = (rAttempts[rOut.calls] = "ok")
  /\ \A k \in 1..(rOut.calls - 1) : rAttempts[k] # "ok"
  /\ (rOut.outcome = "stale") = (\A k \in 1..rRetries : rAttempts[k] = "stale")

\* C5 as stated: the contract holds for every retries = N.
C5_RetryContractEveryN == rOp # "none" => RetryContract

\* C5 amended: the contract holds for every retries = N >= 1.
C5_RetryContractPositiveN == (rOp # "none" /\ rRetries >= 1) => RetryContract

\* A call that used its whole budget and raised the stale failure.
C5_Witness ==
  /\ rOp # "none"
  /\ rRetries = MaxRetries
  /\ rOut.calls = rRetries
  /\ rOut.outcome = "stale"

\* Attempt k is the first one that fails with a kind other than stale.
FirstOtherFailure(k) ==
  /\ k <= rRetries
  /\ rAttempts[k] \notin {"ok", "stale"}
  /\ \A j \in 1..(k - 1) : rAttempts[j] = "stale"

\* C6: when an attempt fails with a kind other than the stale one, that
\* failure leaves the wrapper at once: no further attempt, and no backoff wait
\* besides the one after each earlier stale attempt.
C6_OtherFailureImmediate ==
  rOp # "none" =>
    \A k \in 1..MaxRetries :
      FirstOtherFailure(k) =>
        /\ rOut.outcome = rAttempts[k]
        /\ rOut.calls = k
        /\ rOut.sleeps = k - 1

\* A call whose second attempt failed with another kind after a stale one.
C6_Witness ==
  /\ rOp # "none"
  /\ FirstOtherFailure(2)
  /\ rOut.calls = 2

\* C7: when check_single_book has ended and had created a session, the
\* session was released and the pacing delay was done.
C7_ReleaseThenPacing ==
  \A i \in Indexes :
    (Done(i) /\ driver[i] # "None") => (driver[i] = "closed" /\ slept[i])

\* C8: at most max_workers sessions are open, and every open session is the
\* one of a task in flight.
C8_OpenSessionsBounded ==
  /\ Cardinality(OpenSessions) <= max_workers
  /\ OpenSessions \subseteq InFlight

\* Every worker holds an open session, and there is more than one worker.
C8_Witness ==
  /\ max_workers >= 2
  /\ Cardinality(OpenSessions) = max_workers

FailureKind(status) ==
  CASE status = "timeout" -> "timed_out"
    [] status = "stale" -> "stale"
    [] OTHER -> "structure_changed"

\* C10 as stated: every outcome that is neither Available nor NotFound comes
\* with a message to the sink about the position and the failure.
C10_EveryFailureNotified ==
  \A i \in Indexes :
    (Returned(i) /\ ret[i].status \notin {"available", "not_found"}) =>
      \E n \in 1..Len(sent[i]) :
        sent[i][n] = MessageFor(i, FailureKind(ret[i].status))

\* C10 amended: an outcome returned by the Timeout clause, the Stale clause
\* or the structure-changed branch comes with exactly one message to the
\* sink, about its position and that failure; an Error outcome returned by
\* the `except Exception` clause comes with no message that reached the sink.
C10_AnticipatedFailuresNotified ==
  \A i \in Indexes :
    Returned(i) =>
      /\ via[i] = "timeout" => sent[i] = <<MessageFor(i, "timed_out")>>
      /\ via[i] = "stale" => sent[i] = <<MessageFor(i, "stale")>>
      /\ via[i] = "structural" =>
           sent[i] = <<MessageFor(i, "structure_changed")>>
      /\ via[i] = "unexpected" => (sent[i] = <<>> \/ ~webhook_ok)

\* One task returned Stale with its message, another returned Error from
\* the `except Exception` clause without any.
C10_Witness ==
  \E i, j \in Indexes :
    /\ Returned(i) /\ via[i] = "stale" /\ sent[i] # <<>>
    /\ Returned(j) /\ via[j] = "unexpected" /\ sent[j] = <<>>

\* The status of the branch that sends a message of this kind.
StatusOfMessage(kind) ==
  CASE kind = "available" -> "available"
    [] kind = "timed_out" -> "timeout"
    [] kind = "stale" -> "stale"
    [] OTHER -> "error"

\* C11: a send_slack_message call never changes the result of its task:
\* when check_single_book has run to the end of its finally clause after a
\* call, nothing was raised and the status is the one of the branch that made
\* the call, whatever became of the delivery.
C11_NotifyNeverEscalates ==
  \A i \in Indexes :
    (Done(i) /\ slept[i] /\ sent[i] # <<>>) =>
      /\ exc[i] = "none"
      /\ ret[i].status = StatusOfMessage(sent[i][1].kind)

\* C12: no line printed during a run contains the identity string of an
\* item: neither the lines of the task threads nor the lines of the report.
C12_NoIdentityInLog ==
  /\ \A i \in Indexes : \A n \in 1..Len(log[i]) : log[i][n].book = ""
  /\ \A n \in 1..Len(report) : report[n].book = ""

\* C13: when the wait for the result signals timed out for item i, the
\* executor returns the Timeout outcome with the position and identity of the
\* item, the timed-out message was sent and the session was released.
C13_TimeoutOutcome ==
  \A i \in Indexes :
    (Done(i) /\ nothing_seen[i]) =>
      /\ ret[i] = Outcome(book_list[i], i, "timeout")
      /\ sent[i] = <<MessageFor(i, "timed_out")>>
      /\ driver[i] = "closed"

\* C14: when a stale failure of the session acquisition or of a retry wrapper
\* reaches the except clauses, the clause sends the stale message and returns
\* the Stale outcome; and a finally clause that finds no session created
\* releases none.
C14_StaleOutcome ==
  [][\A i \in Indexes :
       /\ (pc[i] = "handler" /\ exc[i] = "stale" /\ pc'[i] = "finally") =>
            /\ sent'[i] = Append(sent[i], MessageFor(i, "stale"))
            /\ exc'[i] = "none"
            /\ ret'[i] = Outcome(book_list[i], i, "stale")
       /\ (pc[i] = "finally" /\ driver[i] = "None") => driver'[i] = "None"
    ]_vars

\* The step of task i printed the line of this form as its first new line.
Printed(i, form) ==
  /\ Len(log'[i]) > Len(log[i])
  /\ log'[i][Len(log[i]) + 1].form = form

\* C15: a classification that finds products (and prints the available line)
\* sends exactly one available message and returns Available; one that finds
\* the no-results marker instead returns NotFound and sends nothing.
C15_Classification ==
  [][\A i \in Indexes :
       pc[i] = "classify" =>
         /\ Printed(i, "available") =>
              /\ sent'[i] = Append(sent[i], MessageFor(i, "available"))
              /\ pc'[i] = "finally"
              /\ ret'[i] = Outcome(book_list[i], i, "available")
         /\ Printed(i, "no_results") =>
              /\ sent'[i] = sent[i]
              /\ pc'[i] = "finally"
              /\ ret'[i] = Outcome(book_list[i], i, "not_found")
    ]_vars

\* C16: no failure of a task makes main end with an error.
C16_MainNeverFails == mainpc # "failed"

\* C17: the report is written only after main has received the outcome of
\* every item of the book list.
C17_NoPartialReport ==
  (mainpc = "reported" \/ report # <<>>) =>
    /\ collected = Indexes
    /\ \A i \in Indexes : \E n \in 1..Len(results) : results[n].index = i

\* A report of two or more items.
C17_Witness ==
  /\ mainpc = "reported"
  /\ Len(book_list) >= 2
  /\ Len(report) = Len(book_list)

\* Attempt k is the first one that succeeds, after stale failures only.
FirstSuccess(k) ==
  /\ k <= rRetries
  /\ rAttempts[k] = "ok"
  /\ \A j \in 1..(k - 1) : rAttempts[j] = "stale"

\* C18: whatever the number of stale failures before the attempt that
\* succeeds, the wrapper returns and leaves the input as one successful call
\* does: empty after safe_clear_element, the former value followed by the
\* typed keys exactly once after safe_send_keys.
C18_RetryIdempotent ==
  rOp # "none" =>
    \A k \in 1..MaxRetries :
      FirstSuccess(k) =>
        /\ rOut.outcome = "returned"
        /\ rOp = "safe_clear_element" => rInput.after = <<>>
        /\ rOp = "safe_send_keys" =>
             rInput.after = Append(rInput.before, TypedKeys)

\* Keys typed into a non-empty input on the second attempt, after a stale one.
C18_Witness ==
  /\ rOp = "safe_send_keys"
  /\ FirstSuccess(2)
  /\ rInput.before # <<>>

\* C19: when the failure of a task leaves main, every submitted task has run
\* to its end and no session is open.
C19_AbortAfterRelease ==
  mainpc = "failed" =>
    \A i \in Indexes : Done(i) /\ driver[i] # "open"

\* Main failed on one task while a sibling it never collected had opened
\* and released a session.
C19_Witness ==
  /\ mainpc = "failed"
  /\ \E i \in Indexes : i \notin collected /\ driver[i] = "closed"

\* The attempts of the call that were followed by a backoff wait must be the
\* stale failures other than the one of the last attempt.
StaleBeforeLast ==
  {k \in 1..rOut.calls : rAttempts[k] = "stale" /\ k # rRetries}

\* C20 as stated: the backoff waits are those after a stale failure that is
\* not the final attempt, and their number is the number of invocations
\* minus 1.
C20_WaitsAreCallsMinusOne ==
  rOp # "none" =>
    /\ rOut.sleeps = Cardinality(StaleBeforeLast)
    /\ rOut.sleeps = rOut.calls - 1

\* C20 amended: the backoff waits are those after a stale failure that is not
\* the final attempt; when the operation was invoked at all, their number is
\* the number of invocations minus 1.
C20_WaitsBetweenAttempts ==
  rOp # "none" =>
    /\ rOut.sleeps = Cardinality(StaleBeforeLast)
    /\ rOut.calls >= 1 => rOut.sleeps = rOut.calls - 1

\* A call with two attempts, both stale: one wait, then the failure.
C20_Witness ==
  /\ rOp = "safe_clear_element"
  /\ rRetries = 2
  /\ rOut.outcome = "stale"
  /\ rOut.sleeps = 1

\* C21: a wrapper called with retries <= 0 never invokes the wrapped
\* operation: the call counts zero invocations and zero backoff waits, and
\* the input element holds after the call what it held before.
C21_NoAttemptsWhenNotPositive ==
  (rOp # "none" /\ rRetries <= 0) =>
    /\ rOut.calls = 0
    /\ rOut.sleeps = 0
    /\ rInput.after = rInput.before

\* A clear call with a negative retries on an element that holds a value,
\* where the operation would have succeeded had it been invoked.
C21_Witness ==
  /\ rOp = "safe_clear_element"
  /\ rRetries < 0
  /\ rAttempts[1] = "ok"
  /\ rInput.before = <<"old">>
  /\ rOut.outcome = "returned"

\* The number of check_single_book invocations of the run so far.
RECURSIVE InvocationsUpTo(_)
InvocationsUpTo(n) == IF n = 0 THEN 0 ELSE invoked[n] + InvocationsUpTo(n - 1)

\* C22: no item is handed to check_single_book twice, and when main has
\* ended, with the report or with an exception, every item was handed to it
\* once: the invocations of the run number K, for every K and W.
C22_OneInvocationPerItem ==
  /\ \A i \in Indexes : invoked[i] <= 1
  /\ MainEnded =>
       /\ \A i \in Indexes : invoked[i] = 1
       /\ InvocationsUpTo(Len(book_list)) = Len(book_list)

\* A run of several items on one worker that main left with the exception
\* of the first item, the only one it collected: the other items were run
\* all the same.
C22_Witness ==
  /\ Len(book_list) >= 2
  /\ max_workers = 1
  /\ mainpc = "failed"
  /\ collected = {1}
  /\ InvocationsUpTo(Len(book_list)) = Len(book_list)

\* The branches of check_single_book that call send_slack_message and those
\* that do not, each named by the line it prints.
SendingPaths == {"available", "structure_changed", "timed_out", "stale"}

QuietPaths == {"no_results", "unexpected"}

\* The branches the invocation for item i went through.
PathsTaken(i) == {log[i][n].form : n \in 1..Len(log[i])}

\* C23: an invocation of check_single_book asks the sink to send at most one
\* message; when it has ended, it asked exactly once if it went through the
\* available, structure-changed, timeout or stale branch, and not at all if
\* it went through the no-results branch or the `except Exception` clause.
C23_OneNotificationPerPath ==
  \A i \in Indexes :
    /\ Len(sent[i]) <= 1
    /\ Done(i) =>
         /\ PathsTaken(i) \cap SendingPaths # {} => Len(sent[i]) = 1
         /\ PathsTaken(i) \cap QuietPaths # {} => Len(sent[i]) = 0

=============================================================================
